---- MODULE Spec2Model ----
(***************************************************************************)
(* Model of the OCI machine driver: Driver (pkg/drivers/oci/oci.go) and    *)
(* Client (the client file of the same package).  One driver object, one   *)
(* thread of control: an operation of the Driver runs from "idle" through  *)
(* the provider calls it makes, one provider call per step, to "done".     *)
(*                                                                         *)
(* Strings the code inspects character by character (availability-domain  *)
(* names, image display names) are sequences of one-character strings.     *)
(***************************************************************************)
EXTENDS Integers, Sequences, FiniteSets, TLC

\* ------------------------------------------------------------------ bounds
MaxDomains == 3      \* longest availability-domain list the provider returns
MaxImages == 2       \* most images in the compartment's listing
MaxPageSize == 2     \* largest page size of the image listing
PollAttempts == 3    \* attempts the polling retry policy allows (fixed by the SDK helper)

\* ------------------------------------------------------- character strings
Lower == <<"a","b","c","d","e","f","g","h","i","j","k","l","m",
           "n","o","p","q","r","s","t","u","v","w","x","y","z">>
Upper == <<"A","B","C","D","E","F","G","H","I","J","K","L","M",
           "N","O","P","Q","R","S","T","U","V","W","X","Y","Z">>

ToUpperChar(c) ==
    IF \E i \in 1..26 : Lower[i] = c
    THEN Upper[CHOOSE i \in 1..26 : Lower[i] = c] ELSE c

ToLowerChar(c) ==
    IF \E i \in 1..26 : Upper[i] = c
    THEN Lower[CHOOSE i \in 1..26 : Upper[i] = c] ELSE c

\* strings.ToUpper
ToUpper(s) == [i \in 1..Len(s) |-> ToUpperChar(s[i])]

\* strings.Contains(s, substr)
Contains(s, substr) ==
    \E i \in 0..(Len(s) - Len(substr)) :
        \A j \in 1..Len(substr) : s[i + j] = substr[j]

\* strings.EqualFold(s, t), on the letters the model uses
EqualFold(s, t) ==
    /\ Len(s) = Len(t)
    /\ \A i \in 1..Len(s) : ToLowerChar(s[i]) = ToLowerChar(t[i])

\* ------------------------------------------------------------------ errors
\* A Go error value; NilErr is nil.  name carries the text the error quotes.
Err(kind, name) == [kind |-> kind, name |-> name]
NilErr == Err("nil", <<>>)

\* ------------------------------------------------- availability domains
AD_1 == <<"x","x","-","r","e","g","i","o","n","-","A","D","-","1">>
AD_2 == <<"x","x","-","r","e","g","i","o","n","-","A","D","-","2">>
AD_UP == <<"X","X","-","R","E","G","I","O","N","-","A","D","-","1","0">>
DomainNames == {AD_1, AD_2, AD_UP}
RequestedDomains ==
    { <<"A","D","-","1">>, <<"a","d","-","1">>, <<"A","D","-","9">>,
      <<"A","D">> }
DomainLists == UNION { [1..n -> DomainNames] : n \in 0..MaxDomains }

\* createReqForOCi, the loop over ads.Items: availabilityDomain is both the
\* string searched for and the variable a match overwrites.
RECURSIVE resolveAvailabilityDomain(_, _, _)
resolveAvailabilityDomain(availabilityDomain, Items, i) ==
    IF i > Len(Items) THEN availabilityDomain
    ELSE resolveAvailabilityDomain(
             IF Contains(Items[i], ToUpper(availabilityDomain))
             THEN Items[i] ELSE availabilityDomain,
             Items, i + 1)

\* ------------------------------------------------------------------ images
ImageNames == { <<"o","l">>, <<"O","L">>, <<"u","b">> }
Times == {1, 2}

\* The Available images of the compartment as the provider lists them:
\* sorted by creation time, most recent first.  An image's Id is its position.
ImageLists ==
    UNION { { l \in [1..n -> [DisplayName : ImageNames, TimeCreated : Times]] :
                \A i \in 1..(n - 1) : l[i].TimeCreated >= l[i + 1].TimeCreated }
            : n \in 0..MaxImages }

Min(a, b) == IF a < b THEN a ELSE b

\* ListImages response for page p (p = 1 for the nil page token) of a
\* listing cut into pages of size k: the indices of its Items and OpcNextPage
\* (0 for nil).
PageItems(l, k, p) == ((p - 1) * k + 1)..Min(p * k, Len(l))
OpcNextPage(l, k, p) == IF p * k >= Len(l) THEN 0 ELSE p + 1

\* Mutant: the scan does not return at the first match, the last one stays.
FirstMatch_TakesLast(l, k, p, nodeImageName) ==
    LET m == { i \in PageItems(l, k, p) : EqualFold(l[i].DisplayName, nodeImageName) }
    IN  IF m = {} THEN 0 ELSE CHOOSE i \in m : \A j \in m : i >= j

\* getImageID, the loop over r.Items: the first item whose DisplayName
\* equals nodeImageName under case folding (0 when the page has none).
FirstMatch(l, k, p, nodeImageName) ==
    LET m == { i \in PageItems(l, k, p) : EqualFold(l[i].DisplayName, nodeImageName) }
    IN  IF m = {} THEN 0 ELSE CHOOSE i \in m : \A j \in m : i <= j

\* --------------------------------------------------------- lifecycle states
InstanceLifecycleStates ==
    { "MOVING", "PROVISIONING", "RUNNING", "STARTING", "STOPPING", "STOPPED",
      "CREATING_IMAGE", "TERMINATING", "TERMINATED", "FUTURE_STATE", "" }

\* Mutant: the case list lacks TERMINATED.
MapState_NoTerminated(LifecycleState) ==
    CASE LifecycleState = "RUNNING" -> "Running"
      [] LifecycleState \in {"STOPPED"} -> "Stopped"
      [] LifecycleState \in {"STOPPING", "TERMINATING"} -> "Stopping"
      [] LifecycleState \in {"STARTING", "PROVISIONING", "CREATING_IMAGE"} -> "Starting"
      [] OTHER -> "None"

\* Driver.GetState, the switch on instance.LifecycleState
MapState(LifecycleState) ==
    CASE LifecycleState = "RUNNING" -> "Running"
      [] LifecycleState \in {"STOPPED", "TERMINATED"} -> "Stopped"
      [] LifecycleState \in {"STOPPING", "TERMINATING"} -> "Stopping"
      [] LifecycleState \in {"STARTING", "PROVISIONING", "CREATING_IMAGE"} -> "Starting"
      [] OTHER -> "None"

\* ----------------------------------------------------------------- polling
\* What one status read of a polling GetInstance can give: an error (the
\* response then carries no lifecycle state) or the instance's state.
\* The provider during one polling call: the instance is in a state other
\* than the awaited one for the first nonTarget status reads and in the awaited
\* state from then on, and the reads numbered in errs fail.  (What the provider
\* would answer after the first successful read of the awaited state is never
\* read.)
Scripts == [nonTarget : 0..PollAttempts, errs : SUBSET (1..PollAttempts)]

OtherState(targetState) == IF targetState = "RUNNING" THEN "PROVISIONING" ELSE "STOPPING"

\* The outcome of status read k under script sc
ReadOutcome(sc, k, targetState) ==
    IF k \in sc.errs THEN "ERR"
    ELSE IF k <= sc.nonTarget THEN OtherState(targetState)
    ELSE targetState

\* pollUntilRunning / pollUntilStopped: the retry policy's predicate, TRUE
\* for "read again".  It looks at the response's LifecycleState only, so an
\* errored read (no state, or no GetInstanceResponse at all) gives TRUE.
ShouldRetry(outcome, targetState) ==
    IF outcome = "ERR" THEN TRUE ELSE outcome # targetState

\* ------------------------------------------------------------------- state
VARIABLES
    pc,                 \* where the thread of control is
    op,                 \* the Driver operation in progress or last finished
    ret,                \* what that operation returned: [val, err]
    InstanceID,         \* Driver.InstanceID
    IPAddress,          \* BaseDriver.IPAddress
    IsRover,            \* Driver.IsRover
    d_AvailabilityDomain, \* Driver.AvailabilityDomain
    nodeImageName,      \* Driver.Image, as passed to getImageID
    compartmentID,      \* Driver.NodeCompartmentID
    Items,              \* ads.Items of ListAvailabilityDomains
    availabilityDomain, \* createReqForOCi's local, after the loop
    adErr,              \* err of ListAvailabilityDomains
    images,             \* the provider's image listing
    pageSize,           \* and its page size
    page,               \* getImageID's page token (0 is nil)
    listCalls,          \* ListImages requests issued by this getImageID
    imageID,            \* getImageID's result (0 is nil)
    imgErr,             \* getImageID's error
    request,            \* the LaunchInstanceRequest CreateInstance holds
    launchCalls,        \* LaunchInstance calls issued by this CreateInstance
    createResp,         \* createResp.Instance.Id
    ciRet,              \* what CreateInstance returned: [id, err]
    script,             \* what the provider answers to status reads 1, 2, ...
    reads,              \* status reads issued by the polling GetInstance
    targetState,        \* the state the poll predicate waits for
    lastState,          \* outcome of the latest status read
    pollErr,            \* err of the polling GetInstance
    actionCalls,        \* InstanceAction calls issued by this operation
    stopErr,            \* the err StopInstance returned (RestartInstance's err)
    passedID,           \* the instance id the Driver passed to the Client
    vnicCalls           \* provider calls issued by this operation's GetInstanceIP

cfgVars == <<IsRover, d_AvailabilityDomain, nodeImageName, compartmentID>>
adVars == <<Items, availabilityDomain, adErr>>
imgVars == <<images, pageSize, page, listCalls, imageID, imgErr>>
launchVars == <<request, launchCalls, createResp, ciRet>>
pollVars == <<script, reads, targetState, lastState, pollErr>>
actVars == <<actionCalls, stopErr>>
callVars == <<passedID, vnicCalls>>
vars == <<pc, op, ret, InstanceID, IPAddress, cfgVars, adVars, imgVars,
          launchVars, pollVars, actVars, callVars>>

InstanceIDs == { "ocid1.instance.a", "ocid1.instance.b" }
IPs == { "10.0.0.1", "129.0.0.1" }
NoRequest == [built |-> FALSE, AvailabilityDomain |-> <<>>, ImageId |-> 0]
NoScript == [nonTarget |-> 0, errs |-> {}]
NoID == "<no call>"
Ret(val, err) == [val |-> val, err |-> err]

\* The compartment and image name a Create runs with.  SetConfigFromFlags
\* refuses an empty compartment and an empty availability domain; the image
\* name may be empty.
ImageConfigs ==
    { <<"ocid1.compartment", <<>> >>, <<"ocid1.compartment", <<"O","l">> >>,
      <<"ocid1.compartment", <<"z","z">> >> }

ZeroCfg ==
    /\ IsRover' = FALSE /\ d_AvailabilityDomain' = <<>>
    /\ nodeImageName' = <<>> /\ compartmentID' = ""
ZeroAd == Items' = <<>> /\ availabilityDomain' = <<>> /\ adErr' = NilErr
ZeroImg ==
    /\ images' = <<>> /\ pageSize' = 1 /\ page' = 0 /\ listCalls' = 0
    /\ imageID' = 0 /\ imgErr' = NilErr
ZeroLaunch ==
    /\ request' = NoRequest /\ launchCalls' = 0 /\ createResp' = ""
    /\ ciRet' = [id |-> "", err |-> NilErr]
ZeroPoll ==
    /\ script' = NoScript /\ reads' = 0 /\ targetState' = ""
    /\ lastState' = "" /\ pollErr' = NilErr
ZeroAct == actionCalls' = <<>> /\ stopErr' = NilErr
ZeroCall == passedID' = NoID /\ vnicCalls' = 0

Init ==
    /\ pc = "done" /\ op = "NewDriver" /\ ret = Ret("", NilErr)
    /\ InstanceID = "" /\ IPAddress = ""
    /\ IsRover = FALSE /\ d_AvailabilityDomain = <<>>
    /\ nodeImageName = <<>> /\ compartmentID = ""
    /\ Items = <<>> /\ availabilityDomain = <<>> /\ adErr = NilErr
    /\ images = <<>> /\ pageSize = 1 /\ page = 0 /\ listCalls = 0
    /\ imageID = 0 /\ imgErr = NilErr
    /\ request = NoRequest /\ launchCalls = 0 /\ createResp = ""
    /\ ciRet = [id |-> "", err |-> NilErr]
    /\ script = NoScript /\ reads = 0 /\ targetState = ""
    /\ lastState = "" /\ pollErr = NilErr
    /\ actionCalls = <<>> /\ stopErr = NilErr
    /\ passedID = NoID /\ vnicCalls = 0

\* A Driver operation starts when the previous one has returned; what the
\* previous one left in the locals is gone.
Begin(name) ==
    /\ pc = "done"
    /\ op' = name
    /\ ZeroAd /\ ZeroImg /\ ZeroLaunch /\ ZeroPoll /\ ZeroAct

\* initOCIClient (newClient) returns an error
ClientFails(name) ==
    /\ Begin(name) /\ ZeroCfg /\ ZeroCall
    /\ ret' = Ret("", Err("newClient", <<>>))
    /\ pc' = "done"
    /\ UNCHANGED <<InstanceID, IPAddress>>

\* ------------------------------------------------------------------ Create
\* Driver.Create up to the call of CreateInstance fails: initOCIClient, the
\* key pair or the key file.
CreateFailsLocally ==
    /\ Begin("Create") /\ ZeroCfg /\ ZeroCall
    /\ \E kind \in {"newClient", "sshKey"} : ret' = Ret("", Err(kind, <<>>))
    /\ pc' = "done"
    /\ UNCHANGED <<InstanceID, IPAddress>>

\* Driver.Create calls CreateInstance, which copies the configuration into
\* its locals and builds the request on the regular or the rover path.
CreateInstance ==
    /\ Begin("Create") /\ ZeroCall
    /\ \E rover \in BOOLEAN, ad \in RequestedDomains, ic \in ImageConfigs :
         /\ IsRover' = rover
         /\ d_AvailabilityDomain' = IF rover THEN <<>> ELSE ad
         /\ compartmentID' = ic[1]
         /\ nodeImageName' = ic[2]
         /\ pc' = IF rover THEN "getImageID" ELSE "createReqForOCi"
    /\ ret' = Ret("", NilErr)
    /\ UNCHANGED <<InstanceID, IPAddress>>

\* createReqForOCi: ListAvailabilityDomains fails; the function returns a
\* nil error and an empty request, and CreateInstance goes on to launch it.
ListAvailabilityDomainsFails ==
    /\ pc = "createReqForOCi"
    /\ adErr' = Err("ListAvailabilityDomains", <<>>)
    /\ request' = NoRequest
    /\ pc' = "LaunchInstance"
    /\ UNCHANGED <<op, ret, InstanceID, IPAddress, cfgVars, Items,
                   availabilityDomain, imgVars, launchCalls, createResp, ciRet,
                   pollVars, actVars, callVars>>

\* createReqForOCi: ListAvailabilityDomains answers and the loop resolves the
\* availability domain.
ListAvailabilityDomains ==
    /\ pc = "createReqForOCi"
    /\ \E l \in DomainLists :
         /\ Items' = l
         /\ availabilityDomain' = resolveAvailabilityDomain(d_AvailabilityDomain, l, 1)
    /\ pc' = "getImageID"
    /\ UNCHANGED <<op, ret, InstanceID, IPAddress, cfgVars, adErr, imgVars,
                   launchVars, pollVars, actVars, callVars>>

\* getImageID with an empty name or compartment: no listing is requested.
\* (Here and below, locals that the code does not read again are reset.)
getImageIDInvalid ==
    /\ pc = "getImageID"
    /\ nodeImageName = <<>> \/ compartmentID = ""
    /\ imgErr' = Err("validation", <<>>)
    /\ pc' = "createReqReturn"
    /\ Items' = <<>> /\ d_AvailabilityDomain' = <<>>
    /\ UNCHANGED <<op, ret, InstanceID, IPAddress, IsRover, nodeImageName,
                   compartmentID, availabilityDomain, adErr, images, pageSize,
                   page, listCalls, imageID, launchVars, pollVars, actVars, callVars>>

\* getImageID enters its loop with a nil page token; the compartment holds
\* some listing of Available images, served in pages of some size.
getImageID ==
    /\ pc = "getImageID"
    /\ ~(nodeImageName = <<>> \/ compartmentID = "")
    /\ \E l \in ImageLists, k \in 1..MaxPageSize : images' = l /\ pageSize' = k
    /\ page' = 0
    /\ pc' = "ListImages"
    /\ Items' = <<>> /\ d_AvailabilityDomain' = <<>>
    /\ UNCHANGED <<op, ret, InstanceID, IPAddress, IsRover, nodeImageName,
                   compartmentID, availabilityDomain, adErr, listCalls, imageID,
                   imgErr, launchVars, pollVars, actVars, callVars>>

PageIndex(token) == IF token = 0 THEN 1 ELSE token

\* Mutant: the loop breaks after every page.
LoopBreaks_Always(next) == TRUE

\* getImageID: if page = r.OpcNextPage; r.OpcNextPage == nil { break }
LoopBreaks(next) == next = 0

\* ListImages fails under its retry policy (every attempt failed).
ListImagesFails ==
    /\ pc = "ListImages"
    /\ listCalls' = listCalls + 1
    /\ imgErr' = Err("ListImages", <<>>)
    /\ pc' = "createReqReturn"
    /\ UNCHANGED <<op, ret, InstanceID, IPAddress, cfgVars, adVars, images,
                   pageSize, page, imageID, launchVars, pollVars, actVars, callVars>>

\* ListImages returns the page; getImageID scans it, then returns the first
\* match, or follows OpcNextPage, or breaks out of the loop and fails.
ListImages ==
    /\ pc = "ListImages"
    /\ listCalls' = listCalls + 1
    /\ LET p == PageIndex(page)
           m == FirstMatch(images, pageSize, p, nodeImageName)
           next == OpcNextPage(images, pageSize, p)
       IN  IF m # 0
           THEN /\ imageID' = m
                /\ pc' = "createReqReturn"
                /\ UNCHANGED <<page, imgErr>>
           ELSE /\ page' = next
                /\ imageID' = 0
                /\ IF LoopBreaks(next)
                   THEN /\ imgErr' = Err("could not retrieve image id", nodeImageName)
                        /\ pc' = "createReqReturn"
                   ELSE /\ pc' = "ListImages"
                        /\ UNCHANGED imgErr
    /\ UNCHANGED <<op, ret, InstanceID, IPAddress, cfgVars, adVars, images,
                   pageSize, launchVars, pollVars, actVars, callVars>>

\* The err createReqForOCi and createReqForRover return to CreateInstance:
\* nil on the failure paths, and the (nil) err of getImageID at the end.
createReqErr(imageErr) == NilErr

\* createReqForOCi / createReqForRover after getImageID returned, and
\* CreateInstance's check of the returned err.
createReqReturn ==
    /\ pc = "createReqReturn"
    /\ request' = IF imgErr # NilErr THEN NoRequest
                  ELSE [built |-> TRUE,
                        AvailabilityDomain |->
                            IF IsRover THEN <<"O","R","E","I","-","1","-","A","D","-","1">>
                            ELSE availabilityDomain,
                        ImageId |-> imageID]
    /\ IF createReqErr(imgErr) # NilErr
       THEN /\ ciRet' = [id |-> "", err |-> createReqErr(imgErr)]
            /\ InstanceID' = ""
            /\ ret' = Ret("", createReqErr(imgErr))
            /\ pc' = "done"
       ELSE /\ pc' = "LaunchInstance"
            /\ UNCHANGED <<ciRet, InstanceID, ret>>
    /\ ZeroCfg
    /\ images' = <<>> /\ pageSize' = 1 /\ page' = 0 /\ listCalls' = 0 /\ imageID' = 0
    /\ availabilityDomain' = <<>>
    /\ UNCHANGED <<op, IPAddress, Items, adErr, imgErr, launchCalls, createResp,
                   pollVars, actVars, callVars>>

\* Mutant: a failed submission is tried once more before giving up.
LaunchInstanceFails_Resubmits ==
    /\ pc = "LaunchInstance"
    /\ launchCalls' = launchCalls + 1
    /\ IF launchCalls = 0
       THEN pc' = "LaunchInstance" /\ UNCHANGED <<ciRet, InstanceID, ret>>
       ELSE /\ ciRet' = [id |-> "", err |-> Err("LaunchInstance", <<>>)]
            /\ InstanceID' = ""
            /\ ret' = Ret("", Err("LaunchInstance", <<>>))
            /\ pc' = "done"
    /\ UNCHANGED <<op, IPAddress, cfgVars, adVars, imgVars, request, createResp,
                   pollVars, actVars, callVars>>

\* LaunchInstance returns an error: CreateInstance returns ("", err) and
\* Driver.Create stores the "" and returns the error.
LaunchInstanceFails ==
    /\ pc = "LaunchInstance"
    /\ launchCalls' = launchCalls + 1
    /\ ciRet' = [id |-> "", err |-> Err("LaunchInstance", <<>>)]
    /\ InstanceID' = ""
    /\ ret' = Ret("", Err("LaunchInstance", <<>>))
    /\ pc' = "done"
    /\ UNCHANGED <<op, IPAddress, cfgVars, adVars, imgVars, request, createResp,
                   pollVars, actVars, callVars>>

\* LaunchInstance succeeds; CreateInstance sets up the polling GetInstance
\* on createResp.Instance.Id.
LaunchInstance ==
    /\ pc = "LaunchInstance"
    /\ launchCalls' = launchCalls + 1
    /\ \E id \in InstanceIDs : createResp' = id
    /\ \E sc \in Scripts : script' = sc
    /\ reads' = 0 /\ targetState' = "RUNNING"
    /\ pc' = "CreateInstance.poll"
    /\ request' = NoRequest
    /\ UNCHANGED <<op, ret, InstanceID, IPAddress, cfgVars, adVars, imgVars,
                   ciRet, lastState, pollErr, actVars, callVars>>

\* One attempt of a GetInstance issued under the polling retry policy (built
\* by helpers.GetRequestMetadataWithCustomizedRetryPolicy around the predicate,
\* with a bounded number of attempts): the read, and the policy's decision.
\* The call returns the attempt's response and error when the predicate says
\* not to retry or the policy's attempts are used up; otherwise it waits and
\* reads again.
PollRead ==
    /\ reads < PollAttempts
    /\ reads' = reads + 1
    /\ lastState' = ReadOutcome(script, reads + 1, targetState)
    /\ pollErr' = IF lastState' = "ERR" THEN Err("GetInstance", <<>>) ELSE NilErr
    /\ UNCHANGED <<script, targetState>>

PollReturns ==
    \/ ~ShouldRetry(ReadOutcome(script, reads + 1, targetState), targetState)
    \/ reads + 1 >= PollAttempts

\* The err CreateInstance returns when the polling GetInstance failed: the
\* variable err, which holds LaunchInstance's (nil) error.
createPollErr(pollError) == NilErr

\* CreateInstance: a status read after which polling goes on.
CreateInstancePoll ==
    /\ pc = "CreateInstance.poll"
    /\ PollRead /\ ~PollReturns
    /\ UNCHANGED <<pc, op, ret, InstanceID, IPAddress, cfgVars, adVars, imgVars,
                   launchVars, actVars, callVars>>

\* CreateInstance: the status read after which the polling GetInstance
\* returns; CreateInstance returns and Driver.Create stores the id.
CreateInstanceReturn ==
    /\ pc = "CreateInstance.poll"
    /\ PollRead /\ PollReturns
    /\ ciRet' = IF pollErr' # NilErr
                THEN [id |-> "", err |-> createPollErr(pollErr')]
                ELSE [id |-> createResp, err |-> NilErr]
    /\ InstanceID' = ciRet'.id
    /\ IF ciRet'.err # NilErr
       THEN pc' = "done" /\ ret' = Ret("", ciRet'.err)
       ELSE pc' = "Create.GetIP" /\ UNCHANGED ret
    /\ UNCHANGED <<op, IPAddress, cfgVars, adVars, imgVars, request,
                   launchCalls, createResp, actVars, callVars>>

\* What initOCIClient and GetInstanceIP can come to when Driver.GetIP has to
\* ask: the provider calls issued (ListVnicAttachments, GetVnic), the address
\* found (the VNIC's public address, or its private one) and the error.
GetIPOutcomes ==
    { [calls |-> 0, ip |-> "", err |-> Err("newClient", <<>>)],
      [calls |-> 1, ip |-> "", err |-> Err("ListVnicAttachments", <<>>)],
      [calls |-> 1, ip |-> "", err |-> Err("noVNICs", <<>>)],
      [calls |-> 2, ip |-> "", err |-> Err("GetVnic", <<>>)] }
    \cup { [calls |-> 2, ip |-> i, err |-> NilErr] : i \in IPs }

\* Mutant: the address is fetched and stored on every call.
GetIPResult_NoCache(cached, ip) == ip

\* Driver.GetIP's body: the cached address, or the provider's answer, cached.
\* ip = "" stands for a failure of initOCIClient or GetInstanceIP.
GetIPResult(cached, ip) == IF cached # "" THEN cached ELSE ip

\* Driver.GetIP with outcome o: the provider is asked only when nothing is
\* cached, and is passed d.InstanceID.
GetIP(o) ==
    /\ IPAddress' = GetIPResult(IPAddress, o.ip)
    /\ vnicCalls' = IF IPAddress = "" THEN o.calls ELSE 0
    /\ passedID' = IF IPAddress = "" /\ o.calls > 0 THEN InstanceID ELSE NoID

\* What Driver.GetIP returns: ("", err) from inside the branch, else the
\* cached address.
GetIPReturns(o) ==
    IF IPAddress = "" /\ o.err # NilErr THEN Ret("", o.err)
    ELSE Ret(IPAddress', NilErr)

\* Driver.Create: ip, _ := d.GetIP(), then return nil.
CreateGetIP ==
    /\ pc = "Create.GetIP"
    /\ \E o \in GetIPOutcomes : GetIP(o)
    /\ ret' = Ret("", NilErr)
    /\ pc' = "done"
    /\ UNCHANGED <<op, InstanceID, cfgVars, adVars, imgVars, launchVars,
                   pollVars, actVars>>

\* ------------------------------------------------------ Stop, Start, Restart
DriverStopFails == ClientFails("Stop")
DriverStartFails == ClientFails("Start")
DriverRestartFails == ClientFails("Restart")

\* Driver.Stop -> StopInstance; Driver.Restart -> RestartInstance -> StopInstance
DriverStop ==
    /\ Begin("Stop") /\ ZeroCfg
    /\ passedID' = InstanceID /\ vnicCalls' = 0
    /\ pc' = "StopInstance" /\ ret' = Ret("", NilErr)
    /\ UNCHANGED <<InstanceID, IPAddress>>

DriverStart ==
    /\ Begin("Start") /\ ZeroCfg
    /\ passedID' = InstanceID /\ vnicCalls' = 0
    /\ pc' = "StartInstance" /\ ret' = Ret("", NilErr)
    /\ UNCHANGED <<InstanceID, IPAddress>>

DriverRestart ==
    /\ Begin("Restart") /\ ZeroCfg
    /\ passedID' = InstanceID /\ vnicCalls' = 0
    /\ pc' = "StopInstance" /\ ret' = Ret("", NilErr)
    /\ UNCHANGED <<InstanceID, IPAddress>>

\* Mutant: Stop's error is not checked.
RestartAfterStop_IgnoresErr(err) == "StartInstance"

\* RestartInstance after StopInstance returned err: return it, or go on to
\* StartInstance.
RestartAfterStop(err) == IF err # NilErr THEN "done" ELSE "StartInstance"

\* What follows StopInstance's return with err: the operation is over, or
\* (Restart) RestartInstance's check of err.
StopInstanceReturns(err) ==
    /\ stopErr' = err
    /\ IF op = "Restart" /\ RestartAfterStop(err) # "done"
       THEN pc' = RestartAfterStop(err) /\ UNCHANGED ret
       ELSE pc' = "done" /\ ret' = Ret("", err)

\* StopInstance: InstanceAction(STOP) returns an error.
StopActionFails ==
    /\ pc = "StopInstance"
    /\ actionCalls' = Append(actionCalls, "STOP")
    /\ StopInstanceReturns(Err("InstanceAction", <<"S","T","O","P">>))
    /\ UNCHANGED <<op, InstanceID, IPAddress, cfgVars, adVars, imgVars,
                   launchVars, pollVars, callVars>>

\* StopInstance: InstanceAction(STOP) succeeds; set up the polling GetInstance.
StopAction ==
    /\ pc = "StopInstance"
    /\ actionCalls' = Append(actionCalls, "STOP")
    /\ \E sc \in Scripts : script' = sc
    /\ reads' = 0 /\ targetState' = "STOPPED"
    /\ lastState' = "" /\ pollErr' = NilErr
    /\ pc' = "StopInstance.poll"
    /\ UNCHANGED <<op, ret, InstanceID, IPAddress, cfgVars, adVars, imgVars,
                   launchVars, stopErr, callVars>>

StopInstancePoll ==
    /\ pc = "StopInstance.poll"
    /\ PollRead /\ ~PollReturns
    /\ UNCHANGED <<pc, op, ret, InstanceID, IPAddress, cfgVars, adVars, imgVars,
                   launchVars, actVars, callVars>>

\* StopInstance: return err of the polling GetInstance.
StopInstanceReturn ==
    /\ pc = "StopInstance.poll"
    /\ PollRead /\ PollReturns
    /\ StopInstanceReturns(pollErr')
    /\ UNCHANGED <<op, InstanceID, IPAddress, cfgVars, adVars, imgVars,
                   launchVars, actionCalls, callVars>>

\* StartInstance: InstanceAction(START) returns an error.
StartActionFails ==
    /\ pc = "StartInstance"
    /\ actionCalls' = Append(actionCalls, "START")
    /\ ret' = Ret("", Err("InstanceAction", <<"S","T","A","R","T">>))
    /\ pc' = "done"
    /\ UNCHANGED <<op, InstanceID, IPAddress, cfgVars, adVars, imgVars,
                   launchVars, pollVars, stopErr, callVars>>

\* StartInstance: InstanceAction(START) succeeds; set up the polling GetInstance.
StartAction ==
    /\ pc = "StartInstance"
    /\ actionCalls' = Append(actionCalls, "START")
    /\ \E sc \in Scripts : script' = sc
    /\ reads' = 0 /\ targetState' = "RUNNING"
    /\ lastState' = "" /\ pollErr' = NilErr
    /\ pc' = "StartInstance.poll"
    /\ UNCHANGED <<op, ret, InstanceID, IPAddress, cfgVars, adVars, imgVars,
                   launchVars, stopErr, callVars>>

StartInstancePoll ==
    /\ pc = "StartInstance.poll"
    /\ PollRead /\ ~PollReturns
    /\ UNCHANGED <<pc, op, ret, InstanceID, IPAddress, cfgVars, adVars, imgVars,
                   launchVars, actVars, callVars>>

\* StartInstance: return err of the polling GetInstance.
StartInstanceReturn ==
    /\ pc = "StartInstance.poll"
    /\ PollRead /\ PollReturns
    /\ ret' = Ret("", pollErr')
    /\ pc' = "done"
    /\ UNCHANGED <<op, InstanceID, IPAddress, cfgVars, adVars, imgVars,
                   launchVars, actVars, callVars>>

\* ------------------------------------------- GetState, GetIP, Remove, Kill
DriverGetStateFails ==
    /\ Begin("GetState") /\ ZeroCfg
    /\ \E kind \in {"newClient", "GetInstance"} :
         /\ ret' = Ret("None", Err(kind, <<>>))
         /\ passedID' = IF kind = "newClient" THEN NoID ELSE InstanceID
    /\ vnicCalls' = 0
    /\ pc' = "done"
    /\ UNCHANGED <<InstanceID, IPAddress>>

\* Driver.GetState: the status read succeeds with some lifecycle state.
DriverGetState ==
    /\ pc = "done"
    /\ op' = "GetState"
    /\ ZeroCfg /\ ZeroAd /\ ZeroImg /\ ZeroLaunch /\ ZeroAct
    /\ \E st \in InstanceLifecycleStates :
         /\ lastState' = st
         /\ ret' = Ret(MapState(st), NilErr)
    /\ script' = NoScript /\ reads' = 0 /\ targetState' = "" /\ pollErr' = NilErr
    /\ passedID' = InstanceID /\ vnicCalls' = 0
    /\ pc' = "done"
    /\ UNCHANGED <<InstanceID, IPAddress>>

\* Driver.GetIP
DriverGetIP ==
    /\ Begin("GetIP") /\ ZeroCfg
    /\ \E o \in GetIPOutcomes : GetIP(o) /\ ret' = GetIPReturns(o)
    /\ pc' = "done"
    /\ UNCHANGED InstanceID

\* Driver.GetSSHHostname: return d.GetIP()
DriverGetSSHHostname ==
    /\ Begin("GetSSHHostname") /\ ZeroCfg
    /\ \E o \in GetIPOutcomes : GetIP(o) /\ ret' = GetIPReturns(o)
    /\ pc' = "done"
    /\ UNCHANGED InstanceID

defaultDockerPort == 2376

\* fmt.Sprintf("tcp://%s:%d", ip, defaultDockerPort)
URL(ip) == <<"tcp://", ip, ":", defaultDockerPort>>

\* Driver.GetURL's result from what d.GetIP() returned.
GetURLReturns(r) ==
    IF r.err # NilErr THEN Ret("", r.err)
    ELSE IF r.val = "" THEN Ret("", NilErr)
    ELSE Ret(URL(r.val), NilErr)

\* Driver.GetURL
DriverGetURL ==
    /\ Begin("GetURL") /\ ZeroCfg
    /\ \E o \in GetIPOutcomes : GetIP(o) /\ ret' = GetURLReturns(GetIPReturns(o))
    /\ pc' = "done"
    /\ UNCHANGED InstanceID

\* Driver.Remove -> TerminateInstance (does not wait); Driver.Kill is Remove.
DriverRemove ==
    /\ \E name \in {"Remove", "Kill"} : Begin(name)
    /\ ZeroCfg
    /\ \E e \in {NilErr, Err("newClient", <<>>), Err("TerminateInstance", <<>>)} :
         /\ ret' = Ret("", e)
         /\ passedID' = IF e = Err("newClient", <<>>) THEN NoID ELSE InstanceID
    /\ vnicCalls' = 0
    /\ pc' = "done"
    /\ UNCHANGED <<InstanceID, IPAddress>>

\* ------------------------------------------------------------ specification
Next ==
    \/ CreateFailsLocally \/ CreateInstance
    \/ ListAvailabilityDomainsFails \/ ListAvailabilityDomains
    \/ getImageIDInvalid \/ getImageID
    \/ ListImagesFails \/ ListImages
    \/ createReqReturn
    \/ LaunchInstanceFails \/ LaunchInstance
    \/ CreateInstancePoll \/ CreateInstanceReturn \/ CreateGetIP
    \/ DriverStopFails \/ DriverStartFails \/ DriverRestartFails
    \/ DriverStop \/ DriverStart \/ DriverRestart
    \/ StopActionFails \/ StopAction \/ StopInstancePoll \/ StopInstanceReturn
    \/ StartActionFails \/ StartAction \/ StartInstancePoll \/ StartInstanceReturn
    \/ DriverGetStateFails \/ DriverGetState \/ DriverRemove
    \/ DriverGetIP \/ DriverGetSSHHostname \/ DriverGetURL

Spec == Init /\ [][Next]_vars

\* ------------------------------------------------------------------ claims
\* The polling GetInstance of the operation has returned.
PollReturned ==
    /\ reads > 0
    /\ pc \in {"done", "Create.GetIP", "StartInstance"}

\* C1: in CreateInstance, on the regular and the rover path, when getImageID
\* fails CreateInstance returns a non-nil error and LaunchInstance is never
\* called.
C1_ImageFailureStopsLaunch ==
    (op = "Create" /\ imgErr # NilErr) =>
        /\ launchCalls = 0
        /\ pc = "done" => ciRet.err # NilErr

\* C2: when LaunchInstance succeeded and the polling GetInstance returns an
\* error, CreateInstance and Driver.Create return a non-nil error.
C2_PollErrorIsReturned ==
    (op = "Create" /\ createResp # "" /\ PollReturned /\ pollErr # NilErr) =>
        /\ ciRet.err # NilErr
        /\ pc = "done" => ret.err # NilErr

\* C3: StopInstance (StartInstance) returns success only after a status read
\* observed STOPPED (RUNNING); the action call precedes the first status read;
\* no status read is made when the action call fails.
C3_SuccessOnlyAfterTargetObserved ==
    op \in {"Stop", "Start"} =>
        /\ reads > 0 => actionCalls = <<IF op = "Stop" THEN "STOP" ELSE "START">>
        /\ ret.err.kind = "InstanceAction" => reads = 0
        /\ (pc = "done" /\ ret.err = NilErr) => (reads > 0 /\ lastState = targetState)

\* C4: for every N >= 0, when the first N status reads report another state
\* and read N+1 the awaited one, with no read error, the polling of
\* CreateInstance, StartInstance and StopInstance makes exactly N+1 status reads
\* and returns successfully.
C4_ExactlyNPlusOneReads ==
    (PollReturned /\ script.errs = {}) =>
        /\ reads = script.nonTarget + 1
        /\ pollErr = NilErr
        /\ op = "Create" => ciRet = [id |-> createResp, err |-> NilErr]
        /\ (op \in {"Stop", "Start"} /\ pc = "done") => ret.err = NilErr

\* C5: when status read 2 of a polling loop returns an error, the loop stops
\* right after it: there is no third status read and the operation fails.
C5_ReadErrorStopsPolling ==
    (targetState # "" /\ 2 \in script.errs /\ reads >= 2) =>
        /\ reads = 2
        /\ PollReturned
        /\ pollErr # NilErr

\* C6: RestartInstance runs Stop, then Start.  When the Stop phase fails (its
\* action call or its polling returns an error) no Start action call is issued
\* and RestartInstance returns exactly Stop's error; when Stop succeeds the
\* Start action is issued only after Stop's polling GetInstance has returned.
C6_RestartStopThenStart ==
    op = "Restart" =>
        /\ actionCalls \in {<<>>, <<"STOP">>, <<"STOP", "START">>}
        /\ stopErr # NilErr =>
              /\ actionCalls = <<"STOP">>
              /\ pc = "done"
              /\ ret.err = stopErr
        /\ pc = "StartInstance" =>
              /\ actionCalls = <<"STOP">>
              /\ PollReturned /\ targetState = "STOPPED" /\ pollErr = NilErr
        /\ actionCalls = <<"STOP", "START">> =>
              /\ stopErr = NilErr
              /\ pc \in {"StartInstance.poll", "done"}

C6_Witness ==
    /\ op = "Restart" /\ pc = "done"
    /\ stopErr = Err("GetInstance", <<>>)
    /\ ret.err = stopErr
    /\ actionCalls = <<"STOP">>

\* C7: for every lifecycle state a successful status read returns, values
\* outside the known enumeration included, GetState returns without error:
\* Running for RUNNING; Stopped for STOPPED and TERMINATED; Stopping for STOPPING
\* and TERMINATING; Starting for STARTING, PROVISIONING and CREATING_IMAGE; None
\* for every other value.
C7_GetStateMapping ==
    (op = "GetState" /\ ret.err.kind \notin {"newClient", "GetInstance"}) =>
        /\ ret.err = NilErr
        /\ ret.val \in {"Running", "Stopped", "Stopping", "Starting", "None"}
        /\ ret.val = "Running" <=> lastState = "RUNNING"
        /\ ret.val = "Stopped" <=> lastState \in {"STOPPED", "TERMINATED"}
        /\ ret.val = "Stopping" <=> lastState \in {"STOPPING", "TERMINATING"}
        /\ ret.val = "Starting" <=>
              lastState \in {"STARTING", "PROVISIONING", "CREATING_IMAGE"}

C7_Witness ==
    /\ op = "GetState" /\ pc = "done"
    /\ lastState = "FUTURE_STATE"
    /\ ret = Ret("None", NilErr)

\* getImageID has returned from its listing loop without a ListImages failure.
ImageListingDone ==
    /\ pc = "createReqReturn"
    /\ listCalls > 0
    /\ imgErr.kind # "ListImages"

\* The images whose display name is the requested name up to letter case.
Matching == { i \in 1..Len(images) : ToUpper(images[i].DisplayName) = ToUpper(nodeImageName) }

PageOf(i) == ((i - 1) \div pageSize) + 1

\* C8: the listing being sorted by creation time, most recent first, across
\* pages, for a requested name that some image matches case-insensitively
\* getImageID returns the Id of the most recently created matching image, the
\* first match in page-then-item order, and requests no page after the one
\* that holds it.
C8_MostRecentMatch ==
    (ImageListingDone /\ Matching # {}) =>
        /\ imgErr = NilErr
        /\ imageID \in Matching
        /\ \A j \in Matching :
              /\ imageID <= j
              /\ images[imageID].TimeCreated >= images[j].TimeCreated
        /\ listCalls = PageOf(imageID)

C8_Witness ==
    /\ ImageListingDone
    /\ Matching = {1, 2} /\ pageSize = 1
    /\ images[1].DisplayName # images[2].DisplayName
    /\ images[1].TimeCreated > images[2].TimeCreated
    /\ imageID = 1 /\ listCalls = 1

\* C9: for a requested name that no image on any page matches, getImageID
\* follows the next-page tokens until a page comes without one, then fails
\* with an error naming the requested image; it returns no image Id, and it
\* does not stop while a next-page token is present and nothing matched.
C9_NotFoundAfterAllPages ==
    (ImageListingDone /\ Matching = {}) =>
        /\ imageID = 0
        /\ imgErr.kind = "could not retrieve image id"
        /\ imgErr.name = nodeImageName
        /\ page = 0
        /\ listCalls = IF Len(images) = 0 THEN 1 ELSE PageOf(Len(images))

C9_Witness ==
    /\ ImageListingDone
    /\ Len(images) = 2 /\ pageSize = 1 /\ Matching = {}
    /\ listCalls = 2
    /\ imgErr = Err("could not retrieve image id", <<"z", "z">>)

\* The availability domains have just been listed and resolved.
DomainResolved == pc = "getImageID" /\ ~IsRover

\* The domains whose name contains the uppercased requested string.
MatchingDomains ==
    { i \in 1..Len(Items) : Contains(Items[i], ToUpper(d_AvailabilityDomain)) }

LastOf(S) == CHOOSE i \in S : \A j \in S : i >= j

\* C10: resolution on the regular launch path yields the last domain in list
\* order whose name contains the uppercased requested string, and the
\* requested string unchanged when no domain matches.
C10_LastMatchWins ==
    DomainResolved =>
        availabilityDomain =
            IF MatchingDomains = {} THEN d_AvailabilityDomain
            ELSE Items[LastOf(MatchingDomains)]

\* C11: when listing the availability domains fails during CreateInstance,
\* no launch request is submitted and CreateInstance returns a non-nil error.
C11_ListDomainsErrorIsReturned ==
    (op = "Create" /\ adErr # NilErr) =>
        /\ launchCalls = 0
        /\ pc = "done" => (ciRet.err # NilErr /\ ret.err # NilErr)

\* CreateInstance has returned to Driver.Create without an error.
CreateInstanceSucceeded ==
    /\ op = "Create"
    /\ pc \in {"Create.GetIP", "done"}
    /\ ret.err = NilErr

\* C12: one CreateInstance issues LaunchInstance at most once; a successful
\* one issued it exactly once; when the submission fails, CreateInstance
\* returns that error after the one submission and without any status read.
C12_LaunchAtMostOnce ==
    /\ launchCalls <= 1
    /\ CreateInstanceSucceeded => launchCalls = 1
    /\ (op = "Create" /\ ciRet.err = Err("LaunchInstance", <<>>)) =>
          /\ launchCalls = 1
          /\ reads = 0
          /\ pc = "done"
          /\ ret.err = ciRet.err

C12_Witness ==
    /\ op = "Create" /\ pc = "done"
    /\ ret = Ret("", Err("LaunchInstance", <<>>))
    /\ launchCalls = 1 /\ reads = 0

\* C13: InstanceID changes only in a Create that launched an instance, to
\* that instance's id; every other operation, and a Create that created no
\* instance, leaves it unchanged; and the id passed to the provider by a
\* lifecycle call is the cached InstanceID.
C13_InstanceIDOnlyFromLaunch ==
    [][ /\ InstanceID' # InstanceID =>
              /\ op' = "Create"
              /\ createResp' # ""
              /\ InstanceID' = createResp'
        /\ passedID' # NoID => passedID' = InstanceID' ]_vars

\* C14: when Driver.Create has returned nil, InstanceID is non-empty, is the
\* id of the instance the launch submission returned, and a status read saw
\* that instance Running.
C14_CreateSuccessMeansRunning ==
    (op = "Create" /\ pc = "done" /\ ret.err = NilErr) =>
        /\ InstanceID # ""
        /\ InstanceID = createResp
        /\ reads > 0
        /\ lastState = "RUNNING"

\* The operations that return what Driver.GetIP returns.
GetIPOps == {"GetIP", "GetSSHHostname", "GetURL"}

\* C15: once an address is cached, every operation leaves it cached and
\* issues no GetInstanceIP provider call, and GetIP, GetSSHHostname and
\* GetURL return it (GetURL inside the URL); with nothing cached, a GetIP
\* that gets as far as the provider queries it, caches the address on
\* success and leaves the cache empty on failure.
C15_GetIPCaches ==
    [][ /\ IPAddress # "" =>
              /\ IPAddress' = IPAddress
              /\ vnicCalls' = 0
              /\ (pc = "done" /\ op' \in GetIPOps) =>
                    /\ ret'.err = NilErr
                    /\ ret'.val = IF op' = "GetURL" THEN URL(IPAddress)
                                  ELSE IPAddress
        /\ (IPAddress = "" /\ pc = "done" /\ op' \in GetIPOps) =>
              /\ ret'.err # Err("newClient", <<>>) =>
                    (vnicCalls' > 0 /\ passedID' = InstanceID)
              /\ ret'.err # NilErr => (IPAddress' = "" /\ ret'.val = "")
              /\ ret'.err = NilErr =>
                    /\ IPAddress' # ""
                    /\ ret'.val = IF op' = "GetURL" THEN URL(IPAddress')
                                  ELSE IPAddress' ]_vars

C15_Witness ==
    /\ op = "GetURL" /\ pc = "done"
    /\ InstanceID # "" /\ IPAddress # ""
    /\ vnicCalls = 0
    /\ ret.err = NilErr /\ ret.val = URL(IPAddress)

====
